---------------------------- MODULE Spec2Model ----------------------------
(***************************************************************************)
(* Model of src/api/generate.ts: the request handler that validates a      *)
(* generation request, normalises the model identifier, resolves the       *)
(* upstream endpoint against the host allow-list and forwards the request  *)
(* to an OpenAI-compatible upstream (with a sequential model-fallback      *)
(* loop) or to a Gemini-compatible upstream (one call).                    *)
(*                                                                         *)
(* A JavaScript string is a sequence of characters, each character a       *)
(* one-character TLA+ string ("g", "-", " "); a character outside ASCII is *)
(* written by its code point ("U+6A21").  The string operators below       *)
(* compute what the JavaScript built-ins compute on such sequences.        *)
(***************************************************************************)
EXTENDS Integers, Sequences, FiniteSets, TLC

----------------------------------------------------------------------------
(* Bounds of the model.                                                    *)

\* longest model string enumerated exhaustively over ModelAlphabet
MaxModelLen == 4

----------------------------------------------------------------------------
(* JavaScript string built-ins.                                            *)

\* the characters String.prototype.trim removes (those used by the inputs)
WhiteSpace == {" ", "\t", "\n"}

\* the characters the regular expression atom . does not match
LineTerminators == {"\n", "\r"}

Digits == {"0", "1", "2", "3", "4", "5", "6", "7", "8", "9"}

Min(a, b) == IF a <= b THEN a ELSE b

\* F(x), the argument x being computed once however often F uses it (TLC
\* computes the argument of an operator anew at each of its uses)
WithValue(x, F(_)) == CHOOSE y \in { F(v) : v \in {x} } : TRUE

\* s.startsWith(p)
StartsWith(s, p) == Len(p) <= Len(s) /\ SubSeq(s, 1, Len(p)) = p

\* s.endsWith(p)
EndsWith(s, p) == Len(p) <= Len(s) /\ SubSeq(s, Len(s) - Len(p) + 1, Len(s)) = p

\* s.includes(p)
Includes(s, p) ==
    WithValue(s, LAMBDA t :
        \E i \in 1..(Len(t) - Len(p) + 1) : SubSeq(t, i, i + Len(p) - 1) = p)

\* s.slice(n): the string without its first n characters
SliceFrom(s, n) == SubSeq(s, n + 1, Len(s))

\* s.slice(0, n): the first n characters, the whole string when shorter
SliceTo(s, n) == SubSeq(s, 1, Min(n, Len(s)))

RECURSIVE TrimStart(_)
TrimStart(s) ==
    IF s # <<>> /\ Head(s) \in WhiteSpace THEN TrimStart(Tail(s)) ELSE s

RECURSIVE TrimEnd(_)
TrimEnd(s) ==
    IF s # <<>> /\ s[Len(s)] \in WhiteSpace
    THEN TrimEnd(SubSeq(s, 1, Len(s) - 1))
    ELSE s

\* s.trim()
Trim(s) == TrimEnd(TrimStart(s))

UpperToLower ==
    [A |-> "a", B |-> "b", C |-> "c", D |-> "d", E |-> "e", F |-> "f",
     G |-> "g", H |-> "h", I |-> "i", J |-> "j", K |-> "k", L |-> "l",
     M |-> "m", N |-> "n", O |-> "o", P |-> "p", Q |-> "q", R |-> "r",
     S |-> "s", T |-> "t", U |-> "u", V |-> "v", W |-> "w", X |-> "x",
     Y |-> "y", Z |-> "z"]

\* the case folding of the regular-expression flag i and of URL hosts
ToLower(s) ==
    WithValue(s, LAMBDA t :
        [i \in 1..Len(t) |->
            IF t[i] \in DOMAIN UpperToLower THEN UpperToLower[t[i]] ELSE t[i]])

\* /p/i.test(s) for a literal pattern p
TestIgnoreCase(s, p) == Includes(ToLower(s), ToLower(p))

\* the position of the first character of s that is in set cs, Len(s)+1 if none
IndexOfAny(s, cs) ==
    WithValue(s, LAMBDA t :
        IF \E i \in 1..Len(t) : t[i] \in cs
        THEN CHOOSE i \in 1..Len(t) :
                 t[i] \in cs /\ \A j \in 1..(i - 1) : t[j] \notin cs
        ELSE Len(t) + 1)

\* the position of the last character of s that is c, 0 if none
LastIndexOf(s, c) ==
    WithValue(s, LAMBDA t :
        IF \E i \in 1..Len(t) : t[i] = c
        THEN CHOOSE i \in 1..Len(t) :
                 t[i] = c /\ \A j \in (i + 1)..Len(t) : t[j] # c
        ELSE 0)

----------------------------------------------------------------------------
(* normalizeModel, generate.ts lines 9-19.                                 *)

\* /^\d+(?:\.\d+)*$/.test(m): groups of digits separated by single dots
DottedNumeric(m) ==
    /\ m # <<>>
    /\ \A i \in 1..Len(m) : m[i] \in Digits \cup {"."}
    /\ m[1] \in Digits
    /\ m[Len(m)] \in Digits
    /\ \A i \in 1..(Len(m) - 1) : ~(m[i] = "." /\ m[i + 1] = ".")

\* /^4o(?:-.+)?$/.test(m): "4o", or "4o-" and at least one more character
FourO(m) ==
    \/ m = <<"4","o">>
    \/ /\ StartsWith(m, <<"4","o","-">>)
       /\ Len(m) >= 4
       /\ \A i \in 4..Len(m) : m[i] \notin LineTerminators

\* Faulty variant of normalizeModel: the rule of line 14 is tried before
\* the rule of line 13.
normalizeModelGptFirst(input) ==
    LET m == Trim(input) IN
    IF m = <<>> THEN m
    ELSE IF StartsWith(m, <<"g","p","t">>) THEN <<"g","p","t","-">> \o SliceFrom(m, 3)
    ELSE IF StartsWith(m, <<"g","p","t","-">>) \/ StartsWith(m, <<"o","1">>) THEN m
    ELSE IF DottedNumeric(m) THEN <<"g","p","t","-">> \o m
    ELSE IF FourO(m) THEN <<"g","p","t","-">> \o m
    ELSE m

normalizeModel(input) ==
    LET m == Trim(input) IN
    IF m = <<>> THEN m
    ELSE IF StartsWith(m, <<"g","p","t","-">>) \/ StartsWith(m, <<"o","1">>) THEN m
    ELSE IF StartsWith(m, <<"g","p","t">>) THEN <<"g","p","t","-">> \o SliceFrom(m, 3)
    ELSE IF DottedNumeric(m) THEN <<"g","p","t","-">> \o m
    ELSE IF FourO(m) THEN <<"g","p","t","-">> \o m
    ELSE m

----------------------------------------------------------------------------
(* getModelFallbacks, generate.ts lines 21-42.                             *)

\* the if/else-if chain that fills `fallbacks` (lines 27-39)
FallbackTable(m) ==
    IF StartsWith(m, <<"g","p","t","-","4",".","1">>)
    THEN << <<"g","p","t","-","4","o","-","m","i","n","i">>, <<"g","p","t","-","4","o">>, <<"g","p","t","-","4",".","1","-","m","i","n","i">> >>
    ELSE IF StartsWith(m, <<"g","p","t","-","4","o">>)
    THEN << <<"g","p","t","-","4","o","-","m","i","n","i">>, <<"g","p","t","-","4","o">> >>
    ELSE IF StartsWith(m, <<"g","p","t","-","4">>)
    THEN << <<"g","p","t","-","4","o","-","m","i","n","i">>, <<"g","p","t","-","4","o">> >>
    ELSE IF StartsWith(m, <<"o","1">>)
    THEN << <<"g","p","t","-","4","o","-","m","i","n","i">>, <<"g","p","t","-","4","o">> >>
    ELSE IF Includes(m, <<"g","e","m","i","n","i","-","2",".","0","-","f","l","a","s","h">>)
    THEN << <<"g","e","m","i","n","i","-","1",".","5","-","f","l","a","s","h">>, <<"g","e","m","i","n","i","-","1",".","5","-","p","r","o">> >>
    ELSE IF Includes(m, <<"g","e","m","i","n","i">>)
    THEN << <<"g","e","m","i","n","i","-","1",".","5","-","f","l","a","s","h">>, <<"g","e","m","i","n","i","-","1",".","5","-","p","r","o">>, <<"g","e","m","i","n","i","-","2",".","0","-","f","l","a","s","h","-","e","x","p">> >>
    ELSE << >>

\* Faulty variant of FilterFallbacks: the requested model is not removed.
FilterFallbacksKeepModel(fallbacks, m) ==
    SelectSeq(fallbacks, LAMBDA x : x # <<>>)

\* fallbacks.filter(x => x && x !== m)
FilterFallbacks(fallbacks, m) ==
    SelectSeq(fallbacks, LAMBDA x : x # <<>> /\ x # m)

\* Array.from(new Set(xs)): first occurrences, in order
RECURSIVE Dedupe(_)
Dedupe(xs) ==
    IF xs = <<>> THEN <<>>
    ELSE LET init == Dedupe(SubSeq(xs, 1, Len(xs) - 1))
             last == xs[Len(xs)]
         IN  IF \E i \in 1..Len(init) : init[i] = last
             THEN init
             ELSE Append(init, last)

getModelFallbacks(model) ==
    LET m == Trim(model) IN
    IF m = <<>> THEN <<>>
    ELSE Dedupe(FilterFallbacks(FallbackTable(m), m))

----------------------------------------------------------------------------
(* allowedHosts and getUpstreamBase, generate.ts lines 44-62.              *)

\* new Set([...]): what the module-level Set holds when the module is loaded
allowedHosts ==
    { <<"a","p","i",".","v","e","c","t","o","r","e","n","g","i","n","e",".","a","i">>,
      <<"g","e","n","e","r","a","t","i","v","e","l","a","n","g","u","a","g","e",".","g","o","o","g","l","e","a","p","i","s",".","c","o","m">> }

\* what the module-level Set holds as the process runs: the one object every
\* invocation of the handler shares
VARIABLE hosts

\* the schemes whose URLs always have a host
SpecialSchemes == { <<"h","t","t","p">>, <<"h","t","t","p","s">> }

\* characters no URL host may hold
ForbiddenHostChars == {" ", "<", ">", "[", "]", "^", "|", "%", "@", ":", "/", "\\", "?", "#"}

\* the parser first drops every tab and newline of its input
StripTabsAndNewlines(s) == SelectSeq(s, LAMBDA c : c \notin {"\t", "\n", "\r"})

\* s without its leading characters of set cs
RECURSIVE SkipLeading(_, _)
SkipLeading(s, cs) ==
    IF s # <<>> /\ Head(s) \in cs THEN SkipLeading(Tail(s), cs) ELSE s

\* the authority: what precedes the path, the query and the fragment
Authority(after, slashes) ==
    SubSeq(after, 1, IndexOfAny(after, slashes \cup {"?", "#"}) - 1)

\* the authority without its userinfo: what follows the last "@"
HostPort(authority) ==
    SubSeq(authority, LastIndexOf(authority, "@") + 1, Len(authority))

\* host and port of "host" or "host:port"
SplitPort(hostport, pcolon) ==
    IF pcolon = 0
    THEN [host |-> hostport, port |-> <<>>]
    ELSE [host |-> SubSeq(hostport, 1, pcolon - 1),
          port |-> SubSeq(hostport, pcolon + 1, Len(hostport))]

\* the parse of a host with its port: the host is lower-cased; an empty host
\* (where the scheme needs one), a forbidden character in the host or a
\* port that is no number make the URL invalid
ParseHost(hp, hostNeeded) ==
    WithValue(hp, LAMBDA v :
        IF \/ hostNeeded /\ v.host = <<>>
           \/ \E i \in 1..Len(v.host) : v.host[i] \in ForbiddenHostChars
           \/ \E i \in 1..Len(v.port) : v.port[i] \notin Digits
        THEN [ok |-> FALSE, hostname |-> <<>>]
        ELSE [ok |-> TRUE, hostname |-> ToLower(v.host)])

\* the parse of what follows "scheme:".  A special scheme skips every
\* leading slash or backslash and needs a host; another scheme has a host
\* only after "//".
ParseAfterScheme(special, rest) ==
    IF special
    THEN WithValue(HostPort(Authority(SkipLeading(rest, {"/", "\\"}), {"/", "\\"})),
                   LAMBDA hostport :
                       ParseHost(SplitPort(hostport, LastIndexOf(hostport, ":")), TRUE))
    ELSE IF StartsWith(rest, <<"/","/">>)
    THEN WithValue(HostPort(Authority(SliceFrom(rest, 2), {"/"})),
                   LAMBDA hostport :
                       ParseHost(SplitPort(hostport, LastIndexOf(hostport, ":")), FALSE))
    ELSE [ok |-> TRUE, hostname |-> <<>>]

\* the parse of input t (tabs and newlines dropped) whose first ":" is at
\* position colon: without a scheme the URL is invalid
ParseWithScheme(t, colon) ==
    IF \/ colon > Len(t)
       \/ colon = 1
       \/ \E i \in 1..(colon - 1) : t[i] \in ForbiddenHostChars
    THEN [ok |-> FALSE, hostname |-> <<>>]
    ELSE ParseAfterScheme(ToLower(SubSeq(t, 1, colon - 1)) \in SpecialSchemes,
                          SliceFrom(t, colon))

\* new URL(s): [ok |-> it parses, hostname |-> url.hostname].  The part of
\* the URL parser the handler relies on: scheme, "//", optional
\* userinfo "@", host, optional ":port", then path, query or fragment.
ParseURL(s) ==
    WithValue(StripTabsAndNewlines(s),
              LAMBDA t : ParseWithScheme(t, IndexOfAny(t, {":"})))

\* endpoint.replace(/\/+$/, '')
RECURSIVE StripTrailingSlashes(_)
StripTrailingSlashes(s) ==
    IF s # <<>> /\ s[Len(s)] = "/"
    THEN StripTrailingSlashes(SubSeq(s, 1, Len(s) - 1))
    ELSE s

\* Faulty variant of getUpstreamBase: the allow-list test of lines 57-59 is
\* missing.
getUpstreamBaseAnyHost(endpoint) ==
    IF ~ParseURL(endpoint).ok
    THEN [ok |-> FALSE, value |-> <<"I","n","v","a","l","i","d"," ","p","r","o","x","y","E","n","d","p","o","i","n","t">>]
    ELSE [ok |-> TRUE, value |-> StripTrailingSlashes(endpoint)]

\* [ok |-> TRUE, value |-> base] or [ok |-> FALSE, value |-> thrown message]
getUpstreamBase(endpoint) ==
    LET url == ParseURL(endpoint) IN
    IF ~url.ok
    THEN [ok |-> FALSE, value |-> <<"I","n","v","a","l","i","d"," ","p","r","o","x","y","E","n","d","p","o","i","n","t">>]
    ELSE IF url.hostname \notin hosts
    THEN [ok |-> FALSE, value |-> <<"p","r","o","x","y","E","n","d","p","o","i","n","t"," ","h","o","s","t"," ","n","o","t"," ","a","l","l","o","w","e","d">>]
    ELSE [ok |-> TRUE, value |-> StripTrailingSlashes(endpoint)]

----------------------------------------------------------------------------
(* The inputs: inbound requests and upstream replies.                      *)

\* the identifiers of the requests the runtime hands to the handler
ReqIds == {1, 2}

\* req.method
Methods == {"POST", "GET"}

\* req.headers.authorization: a string, or no header at all
AuthHeaders ==
    { [isString |-> FALSE, value |-> <<>>],
      [isString |-> TRUE, value |-> <<"B","e","a","r","e","r"," ","s","k","-","1">>],
      [isString |-> TRUE, value |-> <<"B","e","a","r","e","r"," "," ">>],
      [isString |-> TRUE, value |-> <<"s","k","-","1">>] }

\* body.model, every branch of normalizeModel and of the fallback table
Models ==
    { <<>>, <<" ">>,
      <<"g","p","t","-","4",".","1">>, <<"g","p","t","-","4",".","1","-","m","i","n","i">>, <<"4",".","1">>, <<"g","p","t","-","4","o">>, <<"4","o","-","m","i","n","i">>,
      <<"g","p","t","4">>, <<"o","1","-","m","i","n","i">>, <<"g","p","t","-","3",".","5","-","t","u","r","b","o">>, <<"g","p","t","-","4","o","-","m","i","n","i"," ">>,
      <<"g","p","t","-","g","e","m","i","n","i">>, <<"g","e","m","i","n","i","-","1",".","5","-","p","r","o">>, <<" ","g","e","m","i","n","i","-","2",".","0","-","f","l","a","s","h","-","t","h","i","n","k","i","n","g","-","e","x","p">>,
      <<"c","l","a","u","d","e","-","3">> }

\* body.systemInstruction and body.userPrompt (<<>> is a missing field)
SystemInstructions == { <<>>, <<" ">>, <<"Y","o","u"," ","a","r","e"," ","h","e","l","p","f","u","l">> }
UserPrompts == { <<>>, <<"h","i">> }

\* body.proxyEndpoint (<<>> is a missing field)
ProxyEndpoints ==
    { <<>>,
      <<"h","t","t","p","s",":","/","/","g","e","n","e","r","a","t","i","v","e","l","a","n","g","u","a","g","e",".","g","o","o","g","l","e","a","p","i","s",".","c","o","m","/","v","1","b","e","t","a","/">>,
      <<"H","T","T","P","S",":","/","/","A","P","I",".","v","e","c","t","o","r","e","n","g","i","n","e",".","a","i",":","8","4","4","3","/","v","1","/">>,
      <<"h","t","t","p","s",":","/","/","e","v","i","l",".","e","x","a","m","p","l","e",".","c","o","m">>,
      <<"h","t","t","p","s",":","/","/","a","p","i",".","v","e","c","t","o","r","e","n","g","i","n","e",".","a","i",".","e","v","i","l",".","e","x","a","m","p","l","e",".","c","o","m">>,
      <<"h","t","t","p","s",":","/","/","a","p","i",".","v","e","c","t","o","r","e","n","g","i","n","e",".","a","i","@","e","v","i","l",".","e","x","a","m","p","l","e",".","c","o","m","/","v","1">>,
      <<"n","o","t"," ","a"," ","u","r","l">> }

Requests ==
    [method : Methods, authorization : AuthHeaders, model : Models,
     systemInstruction : SystemInstructions, userPrompt : UserPrompts,
     enableThinking : BOOLEAN, proxyEndpoint : ProxyEndpoints]

\* the request of a handler the runtime has not invoked
NoRequest ==
    [method |-> "GET", authorization |-> [isString |-> FALSE, value |-> <<>>],
     model |-> <<>>, systemInstruction |-> <<>>, userPrompt |-> <<>>,
     enableThinking |-> FALSE, proxyEndpoint |-> <<>>]

\* upstreamRes.status with upstreamRes.headers.get('content-type')
\* (<<>> is a reply without the header)
UpstreamHeads ==
    { [status |-> 200, contentType |-> <<"a","p","p","l","i","c","a","t","i","o","n","/","j","s","o","n">>],
      [status |-> 401, contentType |-> <<"a","p","p","l","i","c","a","t","i","o","n","/","j","s","o","n">>],
      [status |-> 404, contentType |-> <<>>],
      [status |-> 500, contentType |-> <<"t","e","x","t","/","h","t","m","l">>] }

\* the value JSON.parse gives for a body: none (it threw), or the fields the
\* handler reads: error.message, message, choices[0].message.content and
\* candidates[0].content.parts (<<>> is an absent field)
NoJson ==
    [parsed |-> FALSE, error_message |-> <<>>, message |-> <<>>,
     content |-> <<>>, isPartsArray |-> FALSE, parts |-> <<>>]

Json(error_message, message, content, isPartsArray, parts) ==
    [parsed |-> TRUE, error_message |-> error_message, message |-> message,
     content |-> content, isPartsArray |-> isPartsArray, parts |-> parts]

\* the bodies an upstream sends: the raw text with what it parses to
UpstreamBodies ==
    { [raw  |-> <<"{","\"","c","h","o","i","c","e","s","\"",":","[","{","\"","m","e","s","s","a","g","e","\"",":","{","\"","c","o","n","t","e","n","t","\"",":","\"","h","e","l","l","o","\"","}","}","]","}">>,
       json |-> Json(<<>>, <<>>, <<"h","e","l","l","o">>, FALSE, <<>>)],
      [raw  |-> <<"{","\"","c","a","n","d","i","d","a","t","e","s","\"",":","[","{","\"","c","o","n","t","e","n","t","\"",":","{","\"","p","a","r","t","s","\"",":","[","{","\"","t","e","x","t","\"",":","\"","a","\"","}",",","{","\"","t","e","x","t","\"",":","\"","b","\"","}","]","}","}","]","}">>,
       json |-> Json(<<>>, <<>>, <<>>, TRUE, << <<"a">>, <<"b">> >>)],
      [raw  |-> <<"{","\"","e","r","r","o","r","\"",":","{","\"","m","e","s","s","a","g","e","\"",":","\"","M","o","d","e","l"," ","n","o","t"," ","f","o","u","n","d","\"","}","}">>,
       json |-> Json(<<"M","o","d","e","l"," ","n","o","t"," ","f","o","u","n","d">>, <<>>, <<>>, FALSE, <<>>)],
      [raw  |-> <<"{","\"","m","e","s","s","a","g","e","\"",":","\"","U+6A21","U+578B","U+4E0D","U+5B58","U+5728","\"","}">>,
       json |-> Json(<<>>, <<"U+6A21","U+578B","U+4E0D","U+5B58","U+5728">>, <<>>, FALSE, <<>>)],
      [raw  |-> <<"{","\"","e","r","r","o","r","\"",":","{","\"","m","e","s","s","a","g","e","\"",":","\"","N","o","t"," ","f","o","u","n","d","\"","}","}">>,
       json |-> Json(<<"N","o","t"," ","f","o","u","n","d">>, <<>>, <<>>, FALSE, <<>>)],
      [raw  |-> <<"m","o","d","e","l"," ","o","v","e","r","l","o","a","d","e","d">>, json |-> NoJson],
      [raw  |-> <<"N","o"," ","a","v","a","i","l","a","b","l","e"," ","c","h","a","n","n","e","l","s"," ","f","o","r"," ","t","h","i","s"," ","M","O","D","E","L">>, json |-> NoJson],
      [raw  |-> <<" ">>, json |-> NoJson] }

\* the message of the exception a failed fetch or body read throws
TransportErrors == { <<"f","e","t","c","h"," ","f","a","i","l","e","d">>, <<"t","e","r","m","i","n","a","t","e","d">> }

----------------------------------------------------------------------------
(* The state.                                                              *)

\* (with hosts, declared above)
VARIABLES
    req,        \* req[r]: the inbound request handler r was invoked with
    loc,        \* loc[r]: the handler's position and local variables
    calls,      \* calls[r]: the upstream calls handler r issued, in order
    responses,  \* responses[r]: the replies handler r sent, in order
    results     \* results[r]: what the upstream answered to each call of
                \* handler r so far, in the order of calls[r]

vars == <<req, loc, calls, responses, results, hosts>>

\* the upstream's answer to one call: the status line and headers once the
\* fetch resolved, the body once it was read; `threw` when either rejected,
\* with the message of the exception
NoBody == [raw |-> <<>>, json |-> NoJson]

HeadResult(head) ==
    [status |-> head.status, contentType |-> head.contentType,
     bodyRead |-> FALSE, body |-> NoBody, threw |-> FALSE, message |-> <<>>]

ThrowResult(msg) ==
    [status |-> 0, contentType |-> <<>>, bodyRead |-> FALSE,
     body |-> NoBody, threw |-> TRUE, message |-> msg]

\* the locals of a handler that has not run
InitLoc ==
    [pc |-> "idle", model |-> <<>>, rawToken |-> <<>>, isOpenAI |-> FALSE,
     urlObj |-> <<>>, headers |-> <<>>, tryModels |-> <<>>, i |-> 0,
     lastStatus |-> 0, lastContentType |-> <<>>, lastRaw |-> <<>>,
     lastJson |-> NoJson,
     upstreamRes |-> [status |-> 0, contentType |-> <<>>]]

\* one request is handled; the other handler is never invoked
Init ==
    /\ \E q \in Requests : req = [r \in ReqIds |-> IF r = 1 THEN q ELSE NoRequest]
    /\ loc = [r \in ReqIds |-> [InitLoc EXCEPT !.pc = IF r = 1 THEN "start" ELSE "idle"]]
    /\ calls = [r \in ReqIds |-> <<>>]
    /\ responses = [r \in ReqIds |-> <<>>]
    /\ results = [r \in ReqIds |-> <<>>]
    /\ hosts = allowedHosts

----------------------------------------------------------------------------
(* The replies of the handler: res.status(status).json(body).              *)

NoDetail == [isJson |-> FALSE, json |-> NoJson, raw |-> <<>>]

\* { error }
ErrorReply(status, error) ==
    [status |-> status, kind |-> "error", error |-> error, text |-> <<>>,
     usedModel |-> <<>>, upstreamStatus |-> 0, upstreamContentType |-> <<>>,
     detail |-> NoDetail, triedModels |-> <<>>]

\* { text, usedModel }
SuccessReply(text, usedModel) ==
    [status |-> 200, kind |-> "success", error |-> <<>>, text |-> text,
     usedModel |-> usedModel, upstreamStatus |-> 0, upstreamContentType |-> <<>>,
     detail |-> NoDetail, triedModels |-> <<>>]

\* { error, upstreamStatus, upstreamContentType, detail, triedModels }
UpstreamFailureReply(status, error, upstreamStatus, contentType, detail, triedModels) ==
    [status |-> status, kind |-> "upstreamFailure", error |-> error,
     text |-> <<>>, usedModel |-> <<>>, upstreamStatus |-> upstreamStatus,
     upstreamContentType |-> contentType, detail |-> detail,
     triedModels |-> triedModels]

\* a || b on strings: the empty string is falsy
Or(a, b) == IF a # <<>> THEN a ELSE b

\* JSON.parse(raw) in its try/catch (lines 142-148, 224-230)
JSONParse(body) == body.json

\* json ?? raw.slice(0, 2000) (lines 176, 243)
Detail(json, raw) ==
    IF json.parsed
    THEN [isJson |-> TRUE, json |-> json, raw |-> <<>>]
    ELSE [isJson |-> FALSE, json |-> NoJson, raw |-> SliceTo(raw, 2000)]

\* the message resolved inside the loop (lines 156-157)
LoopUpstreamMessage(json, raw) ==
    Or(Or(json.error_message, json.message),
       IF Trim(raw) # <<>> THEN SliceTo(raw, 500) ELSE <<>>)

\* the message of the failure reply (lines 166-170, 233-237)
UpstreamMessage(json, raw) ==
    Or(LoopUpstreamMessage(json, raw), <<"U","p","s","t","r","e","a","m"," ","e","r","r","o","r">>)

\* the alternatives of the second regular expression of line 161
NotFoundPhrasings ==
    { <<"n","o","t"," ","f","o","u","n","d">>, <<"d","o","e","s"," ","n","o","t"," ","e","x","i","s","t">>, <<"U+4E0D","U+5B58","U+5728">>, <<"U+672A","U+627E","U+5230">>, <<"U+672A","U+542F","U+7528">>,
      <<"U+5C1A","U+672A","U+4E0A","U+7EBF">>, <<"U+672A","U+5F00","U+653E">>, <<"N","o"," ","a","v","a","i","l","a","b","l","e"," ","c","h","a","n","n","e","l","s">> }

\* Faulty variant of looksLikeModelNotFound: the status test of line 159 is
\* missing.
looksLikeModelNotFoundAnyStatus(status, upstreamMessage) ==
    /\ \/ TestIgnoreCase(upstreamMessage, <<"m","o","d","e","l">>)
       \/ TestIgnoreCase(upstreamMessage, <<"U+6A21","U+578B">>)
    /\ \E p \in NotFoundPhrasings : TestIgnoreCase(upstreamMessage, p)

\* lines 158-161
looksLikeModelNotFound(status, upstreamMessage) ==
    /\ status = 404
    /\ \/ TestIgnoreCase(upstreamMessage, <<"m","o","d","e","l">>)
       \/ TestIgnoreCase(upstreamMessage, <<"U+6A21","U+578B">>)
    /\ \E p \in NotFoundPhrasings : TestIgnoreCase(upstreamMessage, p)

\* upstreamRes.ok
Ok(status) == status >= 200 /\ status <= 299

\* parts.map(p => p?.text || '').join('') (lines 249-251)
RECURSIVE Join(_)
Join(parts) == IF parts = <<>> THEN <<>> ELSE Head(parts) \o Join(Tail(parts))

GeminiText(json) == IF json.isPartsArray THEN Join(json.parts) ELSE <<>>

----------------------------------------------------------------------------
(* handler, generate.ts lines 64-258.  An action is the code the handler   *)
(* runs without suspending: from its invocation, or from the await it      *)
(* resumes at, up to the next await or to its return.                      *)

DefaultEndpoint == <<"h","t","t","p","s",":","/","/","a","p","i",".","v","e","c","t","o","r","e","n","g","i","n","e",".","a","i">>

\* lines 70-72
RawToken(authorization) ==
    LET token == IF authorization.isString THEN authorization.value ELSE <<>> IN
    IF StartsWith(token, <<"B","e","a","r","e","r"," ">>)
    THEN Trim(SliceFrom(token, Len(<<"B","e","a","r","e","r"," ">>)))
    ELSE Trim(token)

\* Faulty variant of IsOpenAI: the first prefix is cut short, so that every
\* model starting with "g" is taken for an OpenAI-compatible one.
IsOpenAIShortPrefix(model) == StartsWith(model, <<"g">>) \/ StartsWith(model, <<"o","1">>)

\* line 93
IsOpenAI(model) == StartsWith(model, <<"g","p","t">>) \/ StartsWith(model, <<"o","1">>)

\* Faulty variant of OpenAIUrl: the version segment is neither appended nor
\* rewritten.
OpenAIUrlAsGiven(endpoint) == endpoint \o <<"/","c","h","a","t","/","c","o","m","p","l","e","t","i","o","n","s">>

\* lines 104-110: the string handed to new URL
OpenAIUrl(endpoint) ==
    LET baseUrl ==
            IF EndsWith(endpoint, <<"/","v","1","b","e","t","a">>)
            THEN SubSeq(endpoint, 1, Len(endpoint) - Len(<<"/","v","1","b","e","t","a">>)) \o <<"/","v","1">>
            ELSE IF ~EndsWith(endpoint, <<"/","v","1">>)
            THEN endpoint \o <<"/","v","1">>
            ELSE endpoint
    IN  baseUrl \o <<"/","c","h","a","t","/","c","o","m","p","l","e","t","i","o","n","s">>

\* lines 181-182: the string handed to new URL
GeminiUrl(endpoint, model) ==
    LET baseUrl == IF Includes(endpoint, <<"/","v","1","b","e","t","a">>)
                   THEN endpoint
                   ELSE endpoint \o <<"/","v","1","b","e","t","a">>
    IN  baseUrl \o <<"/","m","o","d","e","l","s","/">> \o model \o <<":","g","e","n","e","r","a","t","e","C","o","n","t","e","n","t">>

\* lines 98-101
BaseHeaders ==
    ("Content-Type" :> <<"a","p","p","l","i","c","a","t","i","o","n","/","j","s","o","n">>) @@ ("Accept" :> <<"a","p","p","l","i","c","a","t","i","o","n","/","j","s","o","n">>)

\* lines 112-113
OpenAIHeaders(rawToken) ==
    ("Authorization" :> (<<"B","e","a","r","e","r"," ">> \o rawToken)) @@ ("X-API-Key" :> rawToken)
        @@ BaseHeaders

\* Faulty variant of GeminiHeaders: the host is not looked at, and every
\* Gemini-compatible call carries x-goog-api-key alone.
GeminiHeadersAnyHost(hostname, rawToken) ==
    ("x-goog-api-key" :> rawToken) @@ BaseHeaders

\* lines 208-213
GeminiHeaders(hostname, rawToken) ==
    IF hostname = <<"g","e","n","e","r","a","t","i","v","e","l","a","n","g","u","a","g","e",".","g","o","o","g","l","e","a","p","i","s",".","c","o","m">>
    THEN ("x-goog-api-key" :> rawToken) @@ BaseHeaders
    ELSE ("Authorization" :> (<<"B","e","a","r","e","r"," ">> \o rawToken)) @@ ("X-API-Key" :> rawToken)
             @@ BaseHeaders

\* line 115 (and the triedModels of lines 177 and 244)
TryModels(model) == <<model>> \o getModelFallbacks(model)

\* fetch(urlObj.toString(), { method: 'POST', headers, body }) of lines
\* 133-137 and 216-220: the call as the upstream sees it.  `model` is the
\* model the call names: body.model, or the model segment of the URL.
UpstreamCall(l, m, systemInstruction, userPrompt, thinkingConfig) ==
    [url |-> l.urlObj, hostname |-> ParseURL(l.urlObj).hostname,
     method |-> "POST", headers |-> l.headers, model |-> m,
     systemInstruction |-> systemInstruction, userPrompt |-> userPrompt,
     thinkingConfig |-> thinkingConfig]

\* What a run of handler code does: the locals it leaves, the upstream calls
\* it issues and the replies it sends.
Effect(l, newCalls, newReplies) ==
    [loc |-> l, calls |-> newCalls, replies |-> newReplies]

\* res.status(...).json(...) followed by the handler's return
Return(l, reply) == Effect([l EXCEPT !.pc = "done"], <<>>, <<reply>>)

\* await fetch(...): the call is issued and the handler suspends on it
AwaitFetch(l, call) == Effect([l EXCEPT !.pc = "fetch"], <<call>>, <<>>)

\* handler r runs code with effect e
Apply(r, e) ==
    \E v \in {e} :
        /\ loc' = [loc EXCEPT ![r] = v.loc]
        /\ calls' = [calls EXCEPT ![r] = @ \o v.calls]
        /\ responses' = [responses EXCEPT ![r] = @ \o v.replies]
        /\ UNCHANGED <<req, hosts>>

\* Faulty variant of Gates: the credential is tested before the required
\* fields.
GatesCredentialFirst(q) ==
    IF q.method # "POST"
    THEN << ErrorReply(405, <<"M","e","t","h","o","d"," ","n","o","t"," ","a","l","l","o","w","e","d">>) >>
    ELSE IF RawToken(q.authorization) = <<>>
    THEN << ErrorReply(401, <<"M","i","s","s","i","n","g"," ","P","r","o","x","y"," ","T","o","k","e","n">>) >>
    ELSE IF \/ normalizeModel(q.model) = <<>>
            \/ q.systemInstruction = <<>>
            \/ q.userPrompt = <<>>
    THEN << ErrorReply(400, <<"M","i","s","s","i","n","g"," ","r","e","q","u","i","r","e","d"," ","f","i","e","l","d","s">>) >>
    ELSE << >>

\* lines 65-89: the reply of the first gate that rejects request q, none
\* when q passes the three gates
Gates(q) ==
    IF q.method # "POST"
    THEN << ErrorReply(405, <<"M","e","t","h","o","d"," ","n","o","t"," ","a","l","l","o","w","e","d">>) >>
    ELSE IF \/ normalizeModel(q.model) = <<>>
            \/ q.systemInstruction = <<>>
            \/ q.userPrompt = <<>>
    THEN << ErrorReply(400, <<"M","i","s","s","i","n","g"," ","r","e","q","u","i","r","e","d"," ","f","i","e","l","d","s">>) >>
    ELSE IF RawToken(q.authorization) = <<>>
    THEN << ErrorReply(401, <<"M","i","s","s","i","n","g"," ","P","r","o","x","y"," ","T","o","k","e","n">>) >>
    ELSE << >>

\* lines 91-137 (OpenAI-compatible) and 91-220 (Gemini-compatible): the try
\* block up to its first fetch; a throw goes to the catch of lines 254-257
TryBlock(l0, q) ==
    LET rawToken == RawToken(q.authorization)
        model    == normalizeModel(q.model)
        proxyEndpoint == Trim(Or(q.proxyEndpoint, DefaultEndpoint))
        isOpenAI == IsOpenAI(model)
    IN  WithValue(getUpstreamBase(Or(proxyEndpoint, DefaultEndpoint)), LAMBDA base :
        LET endpoint == base.value
            url      == IF isOpenAI THEN OpenAIUrl(endpoint)
                        ELSE GeminiUrl(endpoint, model)
            parsed   == ParseURL(url)
            l        == [l0 EXCEPT !.model = model, !.rawToken = rawToken,
                                   !.isOpenAI = isOpenAI, !.urlObj = url]
        IN  IF ~base.ok
            THEN Return(l0, ErrorReply(500, base.value))
            ELSE IF ~parsed.ok
            THEN Return(l0, ErrorReply(500, <<"I","n","v","a","l","i","d"," ","U","R","L">>))
            ELSE IF isOpenAI
            THEN LET lo == [l EXCEPT !.headers = OpenAIHeaders(rawToken),
                                     !.tryModels = TryModels(model), !.i = 1,
                                     !.lastStatus = 500]
                 IN  AwaitFetch(lo, UpstreamCall(lo, lo.tryModels[1],
                                        q.systemInstruction, q.userPrompt, FALSE))
            ELSE LET lg == [l EXCEPT !.headers = GeminiHeaders(parsed.hostname, rawToken)]
                 IN  AwaitFetch(lg, UpstreamCall(lg, model,
                                        q.systemInstruction, q.userPrompt,
                                        q.enableThinking /\ Includes(model, <<"t","h","i","n","k","i","n","g">>))))

\* lines 64-137 / 64-220: the code from the invocation to the first await or
\* to the reply that ends the request: the gates, then the try block
Invoked(l, q) ==
    IF Gates(q) # <<>> THEN Return(l, Gates(q)[1]) ELSE TryBlock(l, q)

\* Faulty variant of Handle: the `return` after a gate's reply is missing, so
\* a rejected request falls through to the try block.
HandleWithoutReturn(r) ==
    /\ loc[r].pc = "start"
    /\ UNCHANGED results
    /\ Apply(r, LET t == TryBlock(loc[r], req[r]) IN
                [t EXCEPT !.replies = Gates(req[r]) \o @])

\* lines 64-137 / 64-220: from the invocation to the first fetch, or to the
\* reply that ends the request
Handle(r) ==
    /\ loc[r].pc = "start"
    /\ UNCHANGED results
    /\ Apply(r, Invoked(loc[r], req[r]))

\* lines 139-140 and 222: the status line and the headers are kept, and the
\* handler goes on to read the body
HeadReceived(l, head) ==
    Effect(IF l.isOpenAI
           THEN [l EXCEPT !.pc = "text", !.upstreamRes = head,
                          !.lastStatus = head.status,
                          !.lastContentType = head.contentType]
           ELSE [l EXCEPT !.pc = "text", !.upstreamRes = head],
           <<>>, <<>>)

\* lines 254-257: the catch block, for an exception with message msg
Catch(l, msg) == Return(l, ErrorReply(500, msg))

\* Faulty variant of FetchResolves: on a status of 404 the fetch of the next
\* candidate is issued at once, while the body of the attempt is still to
\* be read.
FetchResolvesFanOut(r, head) ==
    /\ loc[r].pc = "fetch"
    /\ results' = [results EXCEPT ![r] = Append(@, HeadResult(head))]
    /\ Apply(r, IF /\ loc[r].isOpenAI
                   /\ head.status = 404
                   /\ loc[r].i < Len(loc[r].tryModels)
                THEN LET ln == [loc[r] EXCEPT !.i = loc[r].i + 1,
                                              !.upstreamRes = head,
                                              !.lastStatus = head.status,
                                              !.lastContentType = head.contentType]
                     IN  AwaitFetch(ln, UpstreamCall(ln, ln.tryModels[ln.i],
                                            req[r].systemInstruction,
                                            req[r].userPrompt, FALSE))
                ELSE HeadReceived(loc[r], head))

\* Faulty variant of FetchResolves: lastStatus and lastContentType are
\* declared at module level, one pair for every invocation of the handler.
FetchResolvesModuleLevel(r, head) ==
    /\ loc[r].pc = "fetch"
    /\ results' = [results EXCEPT ![r] = Append(@, HeadResult(head))]
    /\ loc' = [x \in ReqIds |->
                 IF x = r
                 THEN HeadReceived(loc[r], head).loc
                 ELSE [loc[x] EXCEPT !.lastStatus = head.status,
                                     !.lastContentType = head.contentType]]
    /\ UNCHANGED <<req, calls, responses, hosts>>

\* the awaited fetch resolves with the status line and the headers
\* (lines 133-140, 216-222)
FetchResolves(r, head) ==
    /\ loc[r].pc = "fetch"
    /\ results' = [results EXCEPT ![r] = Append(@, HeadResult(head))]
    /\ Apply(r, HeadReceived(loc[r], head))

\* Faulty variant of FetchRejects: a transport failure is taken for a failed
\* attempt, and the loop goes on to the next candidate while one is left.
FetchRejectsNextCandidate(r, msg) ==
    /\ loc[r].pc = "fetch"
    /\ results' = [results EXCEPT ![r] = Append(@, ThrowResult(msg))]
    /\ Apply(r, IF loc[r].isOpenAI /\ loc[r].i < Len(loc[r].tryModels)
                THEN LET ln == [loc[r] EXCEPT !.i = loc[r].i + 1] IN
                     AwaitFetch(ln, UpstreamCall(ln, ln.tryModels[ln.i],
                                        req[r].systemInstruction,
                                        req[r].userPrompt, FALSE))
                ELSE Catch(loc[r], msg))

\* the awaited fetch rejects: the catch of lines 254-257
FetchRejects(r, msg) ==
    /\ loc[r].pc = "fetch"
    /\ results' = [results EXCEPT ![r] = Append(@, ThrowResult(msg))]
    /\ Apply(r, Catch(loc[r], msg))

\* Faulty variant of TextRejects: the catch block swallows the exception and
\* the handler returns without a reply.
TextRejectsWithoutReply(r, msg) ==
    /\ loc[r].pc = "text"
    /\ results' = [results EXCEPT ![r][Len(results[r])].threw = TRUE,
                                  ![r][Len(results[r])].message = msg]
    /\ Apply(r, Effect([loc[r] EXCEPT !.pc = "done"], <<>>, <<>>))

\* the awaited upstreamRes.text() rejects: the catch of lines 254-257
TextRejects(r, msg) ==
    /\ loc[r].pc = "text"
    /\ results' = [results EXCEPT ![r][Len(results[r])].threw = TRUE,
                                  ![r][Len(results[r])].message = msg]
    /\ Apply(r, Catch(loc[r], msg))

\* Faulty variant of OpenAIFailure: the reply carries the placeholder status
\* of line 116 instead of the status of the last attempt.
OpenAIFailurePlaceholder(l) ==
    UpstreamFailureReply(500, UpstreamMessage(l.lastJson, l.lastRaw),
        500, l.lastContentType, Detail(l.lastJson, l.lastRaw),
        TryModels(l.model))

\* Faulty variant of OpenAIFailure: triedModels lists the candidates the
\* loop reached instead of the whole list.
OpenAIFailureAttempted(l) ==
    UpstreamFailureReply(l.lastStatus, UpstreamMessage(l.lastJson, l.lastRaw),
        l.lastStatus, l.lastContentType, Detail(l.lastJson, l.lastRaw),
        SubSeq(l.tryModels, 1, l.i))

\* lines 166-178: the failure reply after the loop
OpenAIFailure(l) ==
    UpstreamFailureReply(l.lastStatus, UpstreamMessage(l.lastJson, l.lastRaw),
        l.lastStatus, l.lastContentType, Detail(l.lastJson, l.lastRaw),
        TryModels(l.model))

\* Faulty variant of OpenAISuccess: usedModel is the requested model instead
\* of the candidate of the attempt.
OpenAISuccessRequestedModel(l) == SuccessReply(l.lastJson.content, l.model)

\* lines 150-153: the reply to a successful attempt i
OpenAISuccess(l) == SuccessReply(l.lastJson.content, l.tryModels[l.i])

\* line 163 and the loop header of line 121: after a failed attempt i the
\* loop goes on to candidate i + 1
NextCandidate(l, upstreamMessage) ==
    /\ looksLikeModelNotFound(l.upstreamRes.status, upstreamMessage)
    /\ l.i < Len(l.tryModels)

\* lines 141-179: the body of attempt i is read; the handler replies, or
\* goes round the loop and issues the fetch of the next candidate
OpenAIBodyRead(l0, q, body) ==
    LET l  == [l0 EXCEPT !.lastRaw = body.raw, !.lastJson = JSONParse(body)]
        upstreamMessage == LoopUpstreamMessage(l.lastJson, l.lastRaw)
        ln == [l EXCEPT !.i = l.i + 1]
    IN  IF Ok(l.upstreamRes.status)
        THEN Return(l, OpenAISuccess(l))
        ELSE IF NextCandidate(l, upstreamMessage)
        THEN AwaitFetch(ln, UpstreamCall(ln, ln.tryModels[ln.i],
                                q.systemInstruction, q.userPrompt, FALSE))
        ELSE Return(l, OpenAIFailure(l))

\* lines 223-253: the body of the one Gemini-compatible call is read
GeminiBodyRead(l, body) ==
    LET rawText == body.raw
        json    == JSONParse(body)
    IN  IF ~Ok(l.upstreamRes.status)
        THEN Return(l, UpstreamFailureReply(l.upstreamRes.status,
                           UpstreamMessage(json, rawText), l.upstreamRes.status,
                           l.upstreamRes.contentType, Detail(json, rawText),
                           TryModels(l.model)))
        ELSE Return(l, SuccessReply(GeminiText(json), l.model))

\* lines 141-179 and 223-253: the body is read
BodyRead(l, q, body) ==
    IF l.isOpenAI THEN OpenAIBodyRead(l, q, body) ELSE GeminiBodyRead(l, body)

\* the awaited upstreamRes.text() resolves with the whole body
TextResolves(r, body) ==
    /\ loc[r].pc = "text"
    /\ results' = [results EXCEPT ![r][Len(results[r])].bodyRead = TRUE,
                                  ![r][Len(results[r])].body = body]
    /\ Apply(r, BodyRead(loc[r], req[r], body))

Next ==
    \E r \in ReqIds :
        \/ Handle(r)
        \/ \E head \in UpstreamHeads : FetchResolves(r, head)
        \/ \E msg \in TransportErrors : FetchRejects(r, msg)
        \/ \E body \in UpstreamBodies : TextResolves(r, body)
        \/ \E msg \in TransportErrors : TextRejects(r, msg)

Spec == Init /\ [][Next]_vars

\* The runtime runs a handler that was invoked or whose await has settled,
\* and every upstream call settles: its fetch resolves or rejects, and the
\* read of its body resolves or rejects.
Fairness ==
    \A r \in ReqIds :
        /\ WF_vars(Handle(r))
        /\ WF_vars(\/ \E head \in UpstreamHeads : FetchResolves(r, head)
                   \/ \E msg \in TransportErrors : FetchRejects(r, msg))
        /\ WF_vars(\/ \E body \in UpstreamBodies : TextResolves(r, body)
                   \/ \E msg \in TransportErrors : TextRejects(r, msg))

\* the requests of SpecSettling: one of each way through the handler (each
\* gate, the configuration error, the loop over four candidates, the single
\* Gemini-compatible call)
SettlingRequests ==
    { q \in Requests :
        /\ q.model \in { <<>>, <<"4",".","1">>, <<"g","e","m","i","n","i","-","1",".","5","-","p","r","o">> }
        /\ q.systemInstruction = <<"Y","o","u"," ","a","r","e"," ","h","e","l","p","f","u","l">>
        /\ q.userPrompt = <<"h","i">>
        /\ ~q.enableThinking
        /\ q.authorization.value \in { <<>>, <<"s","k","-","1">> }
        /\ q.proxyEndpoint \in { <<>>, <<"h","t","t","p","s",":","/","/","e","v","i","l",".","e","x","a","m","p","l","e",".","c","o","m">> } }

InitSettling ==
    /\ \E q \in SettlingRequests :
           req = [r \in ReqIds |-> IF r = 1 THEN q ELSE NoRequest]
    /\ loc = [r \in ReqIds |-> [InitLoc EXCEPT !.pc = IF r = 1 THEN "start" ELSE "idle"]]
    /\ calls = [r \in ReqIds |-> <<>>]
    /\ responses = [r \in ReqIds |-> <<>>]
    /\ results = [r \in ReqIds |-> <<>>]
    /\ hosts = allowedHosts

SpecSettling == InitSettling /\ [][Next]_vars /\ Fairness

----------------------------------------------------------------------------
(* The handler's normalization of body.model (line 75), on every string    *)
(* over ModelAlphabet of at most MaxModelLen characters and on Models: one *)
(* request, valid but for its model, runs to its first fetch or to its     *)
(* rejection.                                                              *)

\* the characters the rules of normalizeModel look at
ModelAlphabet == {"g", "p", "t", "-", "o", "1", "4", ".", " "}

ShortModels == UNION { [1..n -> ModelAlphabet] : n \in 0..MaxModelLen }

InitNormalize ==
    /\ \E x \in Models \cup ShortModels :
           req = [r \in ReqIds |->
                    IF r = 1
                    THEN [method |-> "POST",
                          authorization |-> [isString |-> TRUE, value |-> <<"B","e","a","r","e","r"," ","s","k","-","1">>],
                          model |-> x, systemInstruction |-> <<"Y","o","u"," ","a","r","e"," ","h","e","l","p","f","u","l">>,
                          userPrompt |-> <<"h","i">>, enableThinking |-> FALSE,
                          proxyEndpoint |-> <<>>]
                    ELSE NoRequest]
    /\ loc = [r \in ReqIds |-> [InitLoc EXCEPT !.pc = IF r = 1 THEN "start" ELSE "idle"]]
    /\ calls = [r \in ReqIds |-> <<>>]
    /\ responses = [r \in ReqIds |-> <<>>]
    /\ results = [r \in ReqIds |-> <<>>]
    /\ hosts = allowedHosts

NextNormalize == \E r \in ReqIds : Handle(r)

SpecNormalize == InitNormalize /\ [][NextNormalize]_vars

----------------------------------------------------------------------------
(* Two requests handled concurrently: the runtime has invoked the handler  *)
(* for both, and runs the code of either between the awaits of the other.  *)

\* the requests of SpecConcurrent: rejected by a gate, by the allow-list,
\* looping over four candidates, or making the one Gemini-compatible call
ConcurrentRequests ==
    { q \in Requests :
        /\ q.model \in { <<"4",".","1">>, <<"g","e","m","i","n","i","-","1",".","5","-","p","r","o">> }
        /\ q.systemInstruction = <<"Y","o","u"," ","a","r","e"," ","h","e","l","p","f","u","l">>
        /\ q.userPrompt = <<"h","i">>
        /\ ~q.enableThinking
        /\ q.authorization.value = <<"s","k","-","1">>
        /\ q.proxyEndpoint \in { <<>>, <<"h","t","t","p","s",":","/","/","e","v","i","l",".","e","x","a","m","p","l","e",".","c","o","m">> } }

\* the answers of the upstream in SpecConcurrent: success, a model-not-found
\* failure, another failure, a transport failure
ConcurrentHeads == { head \in UpstreamHeads : head.status \in {200, 404} }

ConcurrentBodies ==
    { body \in UpstreamBodies :
        \/ body.json.content = <<"h","e","l","l","o">>
        \/ body.json.error_message = <<"M","o","d","e","l"," ","n","o","t"," ","f","o","u","n","d">>
        \/ body.raw = <<"m","o","d","e","l"," ","o","v","e","r","l","o","a","d","e","d">> }

InitConcurrent ==
    /\ req \in [ReqIds -> ConcurrentRequests]
    /\ loc = [r \in ReqIds |-> [InitLoc EXCEPT !.pc = "start"]]
    /\ calls = [r \in ReqIds |-> <<>>]
    /\ responses = [r \in ReqIds |-> <<>>]
    /\ results = [r \in ReqIds |-> <<>>]
    /\ hosts = allowedHosts

NextConcurrent ==
    \E r \in ReqIds :
        \/ Handle(r)
        \/ \E head \in ConcurrentHeads : FetchResolves(r, head)
        \/ \E msg \in TransportErrors : FetchRejects(r, msg)
        \/ \E body \in ConcurrentBodies : TextResolves(r, body)
        \/ \E msg \in TransportErrors : TextRejects(r, msg)

SpecConcurrent == InitConcurrent /\ [][NextConcurrent]_vars
----------------------------------------------------------------------------
(* Properties of the handler.                                              *)

\* the normalized model of the request of handler r
NormalizedModel(r) == normalizeModel(req[r].model)

\* handler r was invoked and has run its first code
Started(r) == loc[r].pc \in {"fetch", "text", "done"}

\* the replies of handler r that are of a gate: 405, 400 or 401 with the
\* gate's own message
GateReplies ==
    { ErrorReply(405, <<"M","e","t","h","o","d"," ","n","o","t"," ","a","l","l","o","w","e","d">>),
      ErrorReply(400, <<"M","i","s","s","i","n","g"," ","r","e","q","u","i","r","e","d"," ","f","i","e","l","d","s">>),
      ErrorReply(401, <<"M","i","s","s","i","n","g"," ","P","r","o","x","y"," ","T","o","k","e","n">>) }

\* C1: a request answered by one of the three gates (405 wrong method, 400
\* missing field, 401 missing credential) has issued no upstream call when
\* the reply is sent, and issues none afterwards: in every state in which
\* such a reply was sent, the request's list of upstream calls is empty.
C1_NoCallWhenRejected ==
    \A r \in ReqIds :
        (\E k \in 1..Len(responses[r]) : responses[r][k] \in GateReplies)
            => /\ calls[r] = <<>>
               /\ results[r] = <<>>
               /\ loc[r].pc = "done"

\* a request without credential was answered 401
C1_Witness ==
    \E r \in ReqIds :
        /\ req[r].method = "POST"
        /\ RawToken(req[r].authorization) = <<>>
        /\ responses[r] = << ErrorReply(401, <<"M","i","s","s","i","n","g"," ","P","r","o","x","y"," ","T","o","k","e","n">>) >>

\* the endpoint the handler resolves for request q (line 79)
RequestedEndpoint(q) == Trim(Or(q.proxyEndpoint, DefaultEndpoint))

\* request q names a well-formed endpoint whose host is not allow-listed
DisallowedHost(q) ==
    /\ ParseURL(RequestedEndpoint(q)).ok
    /\ ParseURL(RequestedEndpoint(q)).hostname \notin allowedHosts

\* C2: every upstream call, of either family and of every fallback attempt,
\* targets a host of the two-entry allow-list; and a request that passes the
\* gates but names another host is answered 500 "proxyEndpoint host not
\* allowed" without any upstream call.
C2_OnlyAllowedHosts ==
    \A r \in ReqIds :
        /\ \A k \in 1..Len(calls[r]) :
               calls[r][k].hostname \in allowedHosts
        /\ (Started(r) /\ Gates(req[r]) = <<>> /\ DisallowedHost(req[r]))
               => /\ responses[r] =
                        << ErrorReply(500, <<"p","r","o","x","y","E","n","d","p","o","i","n","t"," ","h","o","s","t"," ","n","o","t"," ","a","l","l","o","w","e","d">>) >>
                  /\ calls[r] = <<>>

\* a request for a host outside the allow-list was answered 500
C2_Witness ==
    \E r \in ReqIds :
        /\ Gates(req[r]) = <<>>
        /\ DisallowedHost(req[r])
        /\ req[r].proxyEndpoint = <<"h","t","t","p","s",":","/","/","a","p","i",".","v","e","c","t","o","r","e","n","g","i","n","e",".","a","i","@","e","v","i","l",".","e","x","a","m","p","l","e",".","c","o","m","/","v","1">>
        /\ loc[r].pc = "done"
        /\ responses[r] = << ErrorReply(500, <<"p","r","o","x","y","E","n","d","p","o","i","n","t"," ","h","o","s","t"," ","n","o","t"," ","a","l","l","o","w","e","d">>) >>

\* the request of handler r is of the OpenAI-compatible family: its
\* normalized model starts with "gpt" or "o1"
OpenAIFamily(r) ==
    \/ StartsWith(NormalizedModel(r), <<"g","p","t">>)
    \/ StartsWith(NormalizedModel(r), <<"o","1">>)

\* [NormalizedModel, ...FallbackChain] of the request of handler r
Attempts(r) == <<NormalizedModel(r)>> \o getModelFallbacks(NormalizedModel(r))

\* the upstream answered call k of handler r in full with a success status
Succeeded(r, k) == results[r][k].bodyRead /\ Ok(results[r][k].status)

\* C3: for an OpenAI-compatible request the models sent upstream are a
\* prefix of [NormalizedModel, ...FallbackChain], in that order; once an
\* attempt was answered in full with a success status, the handler has
\* replied 200 with usedModel the model of that attempt and that attempt is
\* the last call.  "4o-mini" succeeding at once gives usedModel
\* "gpt-4o-mini"; succeeding on the second attempt gives "gpt-4o".
C3_FallbackOrderAndFirstSuccess ==
    \A r \in ReqIds :
        OpenAIFamily(r) =>
            /\ Len(calls[r]) <= Len(Attempts(r))
            /\ \A k \in 1..Len(calls[r]) : calls[r][k].model = Attempts(r)[k]
            /\ \A k \in 1..Len(results[r]) :
                   Succeeded(r, k) =>
                       /\ Len(calls[r]) = k
                       /\ loc[r].pc = "done"
                       /\ responses[r] =
                            << SuccessReply(results[r][k].body.json.content,
                                            calls[r][k].model) >>
                       /\ (req[r].model = <<"4","o","-","m","i","n","i">> /\ k = 1)
                              => responses[r][1].usedModel = <<"g","p","t","-","4","o","-","m","i","n","i">>
                       /\ (req[r].model = <<"4","o","-","m","i","n","i">> /\ k = 2)
                              => responses[r][1].usedModel = <<"g","p","t","-","4","o">>

\* "4o-mini": the first attempt failed with model-not-found, the second
\* succeeded, and the reply names "gpt-4o"
C3_Witness ==
    \E r \in ReqIds :
        /\ req[r].model = <<"4","o","-","m","i","n","i">>
        /\ Len(calls[r]) = 2
        /\ results[r][1].status = 404
        /\ Len(results[r]) = 2
        /\ Succeeded(r, 2)
        /\ Len(responses[r]) = 1
        /\ responses[r][1].status = 200
        /\ responses[r][1].usedModel = <<"g","p","t","-","4","o">>

\* the messages, among those of UpstreamBodies, that pass both text tests
\* of line 160-161: the model keyword and a not-found phrasing
ModelNotFoundMessages ==
    { <<"M","o","d","e","l"," ","n","o","t"," ","f","o","u","n","d">>, <<"U+6A21","U+578B","U+4E0D","U+5B58","U+5728">>, <<"N","o"," ","a","v","a","i","l","a","b","l","e"," ","c","h","a","n","n","e","l","s"," ","f","o","r"," ","t","h","i","s"," ","M","O","D","E","L">> }

\* the error message the handler extracts from an answer (lines 156-157)
AttemptMessage(res) == LoopUpstreamMessage(res.body.json, res.body.raw)

\* the answer is a failure with status 404 whose message passes both tests
ModelNotFound(res) ==
    /\ res.bodyRead
    /\ res.status = 404
    /\ AttemptMessage(res) \in ModelNotFoundMessages

\* C4: in the fallback loop attempt k+1 is issued only after attempt k
\* failed with status 404 and a message that passes both text tests; after
\* any other failed attempt no further candidate is tried and the reply
\* surfaces that attempt's failure.
C4_ContinueOnlyOnModelNotFound ==
    \A r \in ReqIds :
        OpenAIFamily(r) =>
            /\ \A k \in 1..(Len(calls[r]) - 1) :
                   Len(results[r]) >= k /\ ModelNotFound(results[r][k])
            /\ \A k \in 1..Len(results[r]) :
                   LET res == results[r][k] IN
                   (res.bodyRead /\ ~Ok(res.status) /\ ~ModelNotFound(res))
                       => /\ Len(calls[r]) = k
                          /\ loc[r].pc = "done"
                          /\ Len(responses[r]) = 1
                          /\ responses[r][1].kind = "upstreamFailure"
                          /\ responses[r][1].status = res.status
                          /\ responses[r][1].upstreamContentType = res.contentType
                          /\ responses[r][1].error =
                                 Or(AttemptMessage(res), <<"U","p","s","t","r","e","a","m"," ","e","r","r","o","r">>)
                          /\ responses[r][1].detail =
                                 Detail(res.body.json, res.body.raw)

\* with candidates left, the loop stopped at a second attempt that failed
\* with "Model not found" under a status other than 404
C4_Witness ==
    \E r \in ReqIds :
        /\ OpenAIFamily(r)
        /\ Len(Attempts(r)) > 2
        /\ Len(calls[r]) = 2
        /\ Len(results[r]) = 2
        /\ ModelNotFound(results[r][1])
        /\ results[r][2].bodyRead
        /\ results[r][2].status = 500
        /\ AttemptMessage(results[r][2]) = <<"M","o","d","e","l"," ","n","o","t"," ","f","o","u","n","d">>
        /\ loc[r].pc = "done"
        /\ responses[r][1].status = 500

\* the endpoint of request q resolves: it is well-formed and its host is
\* allow-listed
EndpointResolves(q) ==
    /\ ParseURL(RequestedEndpoint(q)).ok
    /\ ParseURL(RequestedEndpoint(q)).hostname \in allowedHosts

\* C5: a Gemini-compatible request that passes the gates and the endpoint
\* resolution issues exactly one upstream call, whatever the upstream
\* answers, a 404 "model not found" included; on success usedModel is the
\* normalized model.
C5_GeminiSingleCall ==
    \A r \in ReqIds :
        (/\ Started(r)
         /\ Gates(req[r]) = <<>>
         /\ ~OpenAIFamily(r)
         /\ EndpointResolves(req[r]))
            => /\ Len(calls[r]) = 1
               /\ Len(responses[r]) <= 1
               /\ \A j \in 1..Len(responses[r]) :
                      responses[r][j].kind = "success"
                          => responses[r][j].usedModel = NormalizedModel(r)
               /\ (results[r] # <<>> /\ Succeeded(r, 1))
                      => /\ Len(responses[r]) = 1
                         /\ responses[r][1].kind = "success"

\* a Gemini-compatible request answered 404 "Model not found" ended after
\* its one call
C5_Witness ==
    \E r \in ReqIds :
        /\ Gates(req[r]) = <<>>
        /\ ~OpenAIFamily(r)
        /\ getModelFallbacks(NormalizedModel(r)) # <<>>
        /\ Len(results[r]) = 1
        /\ ModelNotFound(results[r][1])
        /\ loc[r].pc = "done"
        /\ Len(calls[r]) = 1
        /\ responses[r][1].status = 404

\* C6: an upstream-failure reply carries, as its HTTP status and as
\* upstreamStatus, the status of the last upstream attempt issued, whether
\* the chain was exhausted or the loop stopped on another failure.
C6_FailureStatusOfLastAttempt ==
    \A r \in ReqIds :
        \A j \in 1..Len(responses[r]) :
            responses[r][j].kind = "upstreamFailure"
                => /\ calls[r] # <<>>
                   /\ Len(results[r]) = Len(calls[r])
                   /\ responses[r][j].status = results[r][Len(calls[r])].status
                   /\ responses[r][j].upstreamStatus = results[r][Len(calls[r])].status

\* the first attempt failed with 404 model-not-found, the second with 401,
\* and the reply carries 401
C6_Witness ==
    \E r \in ReqIds :
        /\ OpenAIFamily(r)
        /\ Len(calls[r]) = 2
        /\ Len(results[r]) = 2
        /\ results[r][1].status = 404
        /\ results[r][2].status = 401
        /\ Len(responses[r]) = 1
        /\ responses[r][1].kind = "upstreamFailure"
        /\ responses[r][1].status = 401
        /\ responses[r][1].upstreamStatus = 401

\* C7 (as claimed): a POST request in which model, systemInstruction or
\* userPrompt is empty after trimming, a value of whitespace only included,
\* is rejected with 400 before any upstream call.
C7_BlankFieldRejected ==
    \A r \in ReqIds :
        (/\ Started(r)
         /\ req[r].method = "POST"
         /\ \/ Trim(req[r].model) = <<>>
            \/ Trim(req[r].systemInstruction) = <<>>
            \/ Trim(req[r].userPrompt) = <<>>)
            => /\ calls[r] = <<>>
               /\ responses[r] = << ErrorReply(400, <<"M","i","s","s","i","n","g"," ","r","e","q","u","i","r","e","d"," ","f","i","e","l","d","s">>) >>

\* the models of the upstream calls handler r issued, in order
ModelsCalled(r) == [k \in 1..Len(calls[r]) |-> calls[r][k].model]

\* C8 (as claimed): in every upstream-failure reply triedModels is the list
\* of the models for which an upstream call was issued, in order.
C8_TriedModelsAreTheAttempts ==
    \A r \in ReqIds :
        \A j \in 1..Len(responses[r]) :
            responses[r][j].kind = "upstreamFailure"
                => responses[r][j].triedModels = ModelsCalled(r)

\* the elements of sequence s
Range(s) == { s[i] : i \in 1..Len(s) }

\* no element of s occurs twice
NoDuplicates(s) == \A i, j \in 1..Len(s) : i # j => s[i] # s[j]

\* the elements of s occur in t in the same order
SameOrder(s, t) ==
    \A i, j \in 1..Len(s) :
        i < j => \E a, b \in 1..Len(t) : a < b /\ t[a] = s[i] /\ t[b] = s[j]

\* C9: for the normalized model m of every request, getModelFallbacks(m)
\* does not contain m, has no duplicate and holds the other candidates of
\* m's table row in the row's order; so no request sends the same model
\* upstream twice.
C9_FallbacksWithoutModelAndDuplicates ==
    \A r \in ReqIds :
        /\ NormalizedModel(r) \notin Range(getModelFallbacks(NormalizedModel(r)))
        /\ NoDuplicates(getModelFallbacks(NormalizedModel(r)))
        /\ Range(getModelFallbacks(NormalizedModel(r)))
               = Range(FallbackTable(NormalizedModel(r))) \ {NormalizedModel(r)}
        /\ SameOrder(getModelFallbacks(NormalizedModel(r)),
                     FallbackTable(NormalizedModel(r)))
        /\ NoDuplicates(ModelsCalled(r))

\* "gpt-4.1-mini", a candidate of its own row, was tried with both other
\* candidates of the row
C9_Witness ==
    \E r \in ReqIds :
        /\ NormalizedModel(r) = <<"g","p","t","-","4",".","1","-","m","i","n","i">>
        /\ NormalizedModel(r) \in Range(FallbackTable(NormalizedModel(r)))
        /\ Len(calls[r]) = 3
        /\ ModelsCalled(r) = << <<"g","p","t","-","4",".","1","-","m","i","n","i">>, <<"g","p","t","-","4","o","-","m","i","n","i">>, <<"g","p","t","-","4","o">> >>

\* C10 (as claimed): normalization is idempotent; every string starting
\* with "gpt-" or "o1" is returned unchanged, and a dotted-numeric string m
\* gives "gpt-" + m.  loc[r].model is the handler's normalizeModel(body.model).
C10_IdempotentAndPrefixedUnchanged ==
    \A r \in ReqIds :
        Started(r) =>
            /\ normalizeModel(loc[r].model) = loc[r].model
            /\ (StartsWith(req[r].model, <<"g","p","t","-">>) \/ StartsWith(req[r].model, <<"o","1">>))
                   => loc[r].model = req[r].model
            /\ DottedNumeric(req[r].model)
                   => loc[r].model = <<"g","p","t","-">> \o req[r].model

\* the string does not end with a character that trim removes
NoTrailingWhiteSpace(s) == s = <<>> \/ s[Len(s)] \notin WhiteSpace

\* C10 (amended): normalization is idempotent; every string starting with
\* "gpt-" or "o1" that does not end with whitespace is returned unchanged,
\* and a dotted-numeric string m gives "gpt-" + m.
C10_IdempotentAndTrimmedPrefixedUnchanged ==
    \A r \in ReqIds :
        Started(r) =>
            /\ normalizeModel(loc[r].model) = loc[r].model
            /\ (/\ StartsWith(req[r].model, <<"g","p","t","-">>) \/ StartsWith(req[r].model, <<"o","1">>)
                /\ NoTrailingWhiteSpace(req[r].model))
                   => loc[r].model = req[r].model
            /\ DottedNumeric(req[r].model)
                   => loc[r].model = <<"g","p","t","-">> \o req[r].model

\* the handler normalized "gpt-" and left it unchanged
C10_Witness ==
    \E r \in ReqIds :
        /\ Started(r)
        /\ req[r].model = <<"g","p","t","-">>
        /\ loc[r].model = <<"g","p","t","-">>
        /\ calls[r] # <<>>

\* call k of handler r threw: the fetch rejected, or the body read did
Threw(r, k) == k <= Len(results[r]) /\ results[r][k].threw

\* C11: when an upstream call throws, on the first or on a later attempt of
\* the fallback loop, at the fetch or at the body read, that call is the
\* request's last one and the handler has replied exactly once, with status
\* 500 and { error: the exception's message }; the loop is not advanced.
C11_TransportFailureEndsRequest ==
    \A r \in ReqIds :
        \A k \in 1..Len(calls[r]) :
            Threw(r, k)
                => /\ Len(calls[r]) = k
                   /\ Len(results[r]) = k
                   /\ loc[r].pc = "done"
                   /\ results[r][k].message \in TransportErrors
                   /\ responses[r] = << ErrorReply(500, results[r][k].message) >>

\* the fetch of the second attempt of the loop rejected, with candidates
\* left, and the request ended with 500 "fetch failed"
C11_Witness ==
    \E r \in ReqIds :
        /\ OpenAIFamily(r)
        /\ Len(Attempts(r)) > 2
        /\ Len(calls[r]) = 2
        /\ Threw(r, 2)
        /\ results[r][2].status = 0
        /\ responses[r] = << ErrorReply(500, <<"f","e","t","c","h"," ","f","a","i","l","e","d">>) >>

\* call k of handler r is in flight: it was issued, and its answer has not
\* been received in full nor has it thrown
InFlight(r, k) ==
    \/ k > Len(results[r])
    \/ ~results[r][k].bodyRead /\ ~results[r][k].threw

\* C12: a request has at most one upstream call in flight; when attempt
\* k + 1 of the loop has been issued, the status and the whole body of
\* attempt k have been received and the attempt was classified as a
\* model-not-found failure.
C12_OneCallInFlight ==
    \A r \in ReqIds :
        /\ Len(results[r]) <= Len(calls[r])
        /\ Len(calls[r]) <= Len(results[r]) + 1
        /\ \A j, k \in 1..Len(calls[r]) :
               (InFlight(r, j) /\ InFlight(r, k)) => j = k
        /\ \A k \in 1..(Len(calls[r]) - 1) :
               /\ ~InFlight(r, k)
               /\ results[r][k].bodyRead
               /\ ~Ok(results[r][k].status)
               /\ ModelNotFound(results[r][k])

\* the third attempt is in flight, its status received and its body not,
\* after the two attempts before it were answered in full
C12_Witness ==
    \E r \in ReqIds :
        /\ Len(calls[r]) = 3
        /\ Len(results[r]) = 3
        /\ loc[r].pc = "text"
        /\ InFlight(r, 3)
        /\ results[r][1].bodyRead
        /\ results[r][2].bodyRead

\* a required field of request q is empty: the model once trimmed, or
\* systemInstruction or userPrompt as sent
FieldEmpty(q) ==
    \/ Trim(q.model) = <<>>
    \/ q.systemInstruction = <<>>
    \/ q.userPrompt = <<>>

\* request q carries no credential: no Authorization header, or one that is
\* empty once "Bearer " and surrounding whitespace are removed
CredentialEmpty(q) ==
    \/ ~q.authorization.isString
    \/ Trim(q.authorization.value) = <<>>
    \/ /\ StartsWith(q.authorization.value, <<"B","e","a","r","e","r"," ">>)
       /\ Trim(SliceFrom(q.authorization.value, Len(<<"B","e","a","r","e","r"," ">>))) = <<>>

\* the endpoint of request q is malformed or its host is not allow-listed
EndpointRejected(q) == ~EndpointResolves(q)

\* the replies of the configuration error: 500 with the message of
\* getUpstreamBase
ConfigurationErrors ==
    { ErrorReply(500, <<"I","n","v","a","l","i","d"," ","p","r","o","x","y","E","n","d","p","o","i","n","t">>),
      ErrorReply(500, <<"p","r","o","x","y","E","n","d","p","o","i","n","t"," ","h","o","s","t"," ","n","o","t"," ","a","l","l","o","w","e","d">>) }

\* C13: the gates are tested in a fixed order.  A request whose method is
\* not POST is answered 405 whatever else it carries; a POST request with an
\* empty required field is answered 400, also without credential; a POST
\* request with its fields present and no credential is answered 401, also
\* when its endpoint is malformed or disallowed; and a configuration error
\* (500) is sent only to a request that passes the three gates.
C13_GateOrder ==
    \A r \in ReqIds :
        Started(r) =>
            /\ req[r].method # "POST"
                   => responses[r] = << ErrorReply(405, <<"M","e","t","h","o","d"," ","n","o","t"," ","a","l","l","o","w","e","d">>) >>
            /\ (req[r].method = "POST" /\ FieldEmpty(req[r]))
                   => responses[r] = << ErrorReply(400, <<"M","i","s","s","i","n","g"," ","r","e","q","u","i","r","e","d"," ","f","i","e","l","d","s">>) >>
            /\ (req[r].method = "POST" /\ ~FieldEmpty(req[r])
                    /\ CredentialEmpty(req[r]))
                   => responses[r] = << ErrorReply(401, <<"M","i","s","s","i","n","g"," ","P","r","o","x","y"," ","T","o","k","e","n">>) >>
            /\ (\E j \in 1..Len(responses[r]) : responses[r][j] \in ConfigurationErrors)
                   => /\ req[r].method = "POST"
                      /\ ~FieldEmpty(req[r])
                      /\ ~CredentialEmpty(req[r])
                      /\ EndpointRejected(req[r])
                      /\ calls[r] = <<>>

\* a POST request without credential and with a required field empty was
\* answered 400
C13_Witness ==
    \E r \in ReqIds :
        /\ req[r].method = "POST"
        /\ req[r].userPrompt = <<>>
        /\ CredentialEmpty(req[r])
        /\ EndpointRejected(req[r])
        /\ responses[r] = << ErrorReply(400, <<"M","i","s","s","i","n","g"," ","r","e","q","u","i","r","e","d"," ","f","i","e","l","d","s">>) >>

\* C14: in every upstream-failure reply, of either family, triedModels is
\* [NormalizedModel, ...FallbackChain(NormalizedModel)] in full, however
\* many upstream calls were issued before the failure was surfaced.
C14_TriedModelsIsFullList ==
    \A r \in ReqIds :
        \A j \in 1..Len(responses[r]) :
            responses[r][j].kind = "upstreamFailure"
                => /\ responses[r][j].triedModels = Attempts(r)
                   /\ responses[r][j].triedModels[1] = NormalizedModel(r)
                   /\ Len(calls[r]) <= Len(responses[r][j].triedModels)

\* "4.1" failed on its first call with a status other than 404, and the
\* reply lists the four candidates
C14_Witness ==
    \E r \in ReqIds :
        /\ req[r].model = <<"4",".","1">>
        /\ Len(calls[r]) = 1
        /\ Len(responses[r]) = 1
        /\ responses[r][1].kind = "upstreamFailure"
        /\ responses[r][1].status = 401
        /\ responses[r][1].triedModels =
               << <<"g","p","t","-","4",".","1">>, <<"g","p","t","-","4","o","-","m","i","n","i">>, <<"g","p","t","-","4","o">>, <<"g","p","t","-","4",".","1","-","m","i","n","i">> >>

\* the credential of the request of handler r: the Authorization header
\* without its "Bearer " prefix and surrounding whitespace
Credential(r) == RawToken(req[r].authorization)

GeminiApiHost == <<"g","e","n","e","r","a","t","i","v","e","l","a","n","g","u","a","g","e",".","g","o","o","g","l","e","a","p","i","s",".","c","o","m">>

\* the headers carry Authorization: Bearer <cred> and X-API-Key: <cred>,
\* and no x-goog-api-key
BearerAndApiKey(headers, cred) ==
    /\ "Authorization" \in DOMAIN headers
    /\ headers["Authorization"] = <<"B","e","a","r","e","r"," ">> \o cred
    /\ "X-API-Key" \in DOMAIN headers
    /\ headers["X-API-Key"] = cred
    /\ "x-goog-api-key" \notin DOMAIN headers

\* the headers carry x-goog-api-key: <cred> and neither of the other two
GoogApiKeyOnly(headers, cred) ==
    /\ "x-goog-api-key" \in DOMAIN headers
    /\ headers["x-goog-api-key"] = cred
    /\ "Authorization" \notin DOMAIN headers
    /\ "X-API-Key" \notin DOMAIN headers

\* C15: an OpenAI-compatible call carries Authorization: Bearer <cred> and
\* X-API-Key: <cred>, on the Gemini API host too; a Gemini-compatible call
\* carries x-goog-api-key alone when the host is the Gemini API host, and
\* the other two headers alone otherwise.  Every call carries a credential
\* header, and the credential is not empty.
C15_CredentialHeaders ==
    \A r \in ReqIds :
        \A k \in 1..Len(calls[r]) :
            LET call == calls[r][k] IN
            /\ Credential(r) # <<>>
            /\ OpenAIFamily(r) => BearerAndApiKey(call.headers, Credential(r))
            /\ (~OpenAIFamily(r) /\ call.hostname = GeminiApiHost)
                   => GoogApiKeyOnly(call.headers, Credential(r))
            /\ (~OpenAIFamily(r) /\ call.hostname # GeminiApiHost)
                   => BearerAndApiKey(call.headers, Credential(r))
            /\ {"Authorization", "X-API-Key", "x-goog-api-key"}
                   \cap DOMAIN call.headers # {}

\* an OpenAI-compatible call to the Gemini API host carries the two
\* headers of its family
C15_Witness ==
    \E r \in ReqIds :
        /\ OpenAIFamily(r)
        /\ Len(calls[r]) = 1
        /\ calls[r][1].hostname = GeminiApiHost
        /\ calls[r][1].headers["Authorization"] = <<"B","e","a","r","e","r"," ","s","k","-","1">>
        /\ calls[r][1].headers["X-API-Key"] = <<"s","k","-","1">>

\* a Gemini-compatible call to the other allow-listed host carries the two
\* headers and no x-goog-api-key
C15_WitnessGeminiBehindProxy ==
    \E r \in ReqIds :
        /\ ~OpenAIFamily(r)
        /\ Len(calls[r]) = 1
        /\ calls[r][1].hostname = <<"a","p","i",".","v","e","c","t","o","r","e","n","g","i","n","e",".","a","i">>
        /\ BearerAndApiKey(calls[r][1].headers, <<"s","k","-","1">>)

\* the URL is of the chat-completions shape
ChatCompletionsShape(url) == EndsWith(url, <<"/","v","1","/","c","h","a","t","/","c","o","m","p","l","e","t","i","o","n","s">>)

\* the URL is of the generateContent shape for model m
GenerateContentShape(url, m) ==
    EndsWith(url, <<"/","m","o","d","e","l","s","/">> \o m \o <<":","g","e","n","e","r","a","t","e","C","o","n","t","e","n","t">>)

\* C16: the family is decided by the normalized model and fixes the shape
\* of the URL of every call of the request: ".../v1/chat/completions" if
\* and only if the normalized model starts with "gpt" or "o1", and
\* ".../models/<model>:generateContent" otherwise; the calls of one request
\* are all of one shape, and the family the handler decided on is the one
\* of the normalized model.
C16_FamilyFixesUrlShape ==
    \A r \in ReqIds :
        /\ \A k \in 1..Len(calls[r]) :
               /\ ChatCompletionsShape(calls[r][k].url) <=> OpenAIFamily(r)
               /\ GenerateContentShape(calls[r][k].url, NormalizedModel(r))
                      <=> ~OpenAIFamily(r)
               /\ loc[r].isOpenAI <=> OpenAIFamily(r)
        /\ \A j, k \in 1..Len(calls[r]) :
               ChatCompletionsShape(calls[r][j].url)
                   <=> ChatCompletionsShape(calls[r][k].url)

\* "gpt4" with an endpoint ending in /v1beta: its two calls went to the
\* chat-completions URL under /v1
C16_Witness ==
    \E r \in ReqIds :
        /\ req[r].model = <<"g","p","t","4">>
        /\ req[r].proxyEndpoint = <<"h","t","t","p","s",":","/","/","g","e","n","e","r","a","t","i","v","e","l","a","n","g","u","a","g","e",".","g","o","o","g","l","e","a","p","i","s",".","c","o","m","/","v","1","b","e","t","a","/">>
        /\ Len(calls[r]) = 2
        /\ calls[r][1].url = <<"h","t","t","p","s",":","/","/","g","e","n","e","r","a","t","i","v","e","l","a","n","g","u","a","g","e",".","g","o","o","g","l","e","a","p","i","s",".","c","o","m","/","v","1","/","c","h","a","t","/","c","o","m","p","l","e","t","i","o","n","s">>
        /\ calls[r][2].url = calls[r][1].url

\* the identifier is of the OpenAI-compatible family
OpenAIIdentifier(m) == StartsWith(m, <<"g","p","t">>) \/ StartsWith(m, <<"o","1">>)

\* C18 (as claimed): every model identifier a request of the
\* OpenAI-compatible family sends to the chat-completions endpoint starts
\* with "gpt" or "o1"; no Gemini identifier of the fallback table is sent
\* there.
C18_OnlyOpenAIIdentifiersToChat ==
    \A r \in ReqIds :
        OpenAIFamily(r) =>
            \A k \in 1..Len(calls[r]) :
                ChatCompletionsShape(calls[r][k].url)
                    => OpenAIIdentifier(calls[r][k].model)

\* the most upstream calls a request of handler r's family may issue
MaxCalls(r) == IF OpenAIFamily(r) THEN 4 ELSE 1

\* handler r has replied once and returned
RepliedOnce(r) == loc[r].pc = "done" /\ Len(responses[r]) = 1

\* C17: provided every upstream call settles, every request invoked is
\* eventually answered, and answered once: a request never has two
\* replies, a handler that returned has sent one, and the reply once sent
\* stays the only one; a request issues at most 4 upstream calls when of
\* the OpenAI-compatible family and at most 1 otherwise.
C17_EventuallyOneResponse ==
    /\ [](\A r \in ReqIds :
              /\ Len(responses[r]) <= 1
              /\ loc[r].pc = "done" <=> Len(responses[r]) = 1
              /\ Len(calls[r]) <= MaxCalls(r))
    /\ \A r \in ReqIds : (loc[r].pc = "start") ~> [] RepliedOnce(r)

\* a request was answered after four upstream calls
C17_Witness ==
    \E r \in ReqIds :
        /\ OpenAIFamily(r)
        /\ Len(calls[r]) = 4
        /\ Len(results[r]) = 4
        /\ RepliedOnce(r)

\* a run of the handler: its locals, and the upstream calls and the replies
\* so far; run followed by code with effect e
Then(run, e) ==
    [loc |-> e.loc, calls |-> run.calls \o e.calls,
     replies |-> run.replies \o e.replies]

\* what a handler suspended at a fetch, with locals l, does when the
\* upstream answers its call with a: the fetch rejects; or it resolves, and
\* the body read rejects, resolves, or is still awaited
Answered(l, q, a) ==
    IF a.threw /\ a.status = 0
    THEN Catch(l, a.message)
    ELSE WithValue(HeadReceived(l, [status |-> a.status,
                                    contentType |-> a.contentType]).loc,
                   LAMBDA lh :
                       IF a.threw THEN Catch(lh, a.message)
                       ELSE IF a.bodyRead THEN BodyRead(lh, q, a.body)
                       ELSE Effect(lh, <<>>, <<>>))

\* the run of the handler invoked alone with request q, the allow-list as
\* loaded, up to the k-th of the upstream's answers as
RECURSIVE Alone(_, _, _)
Alone(q, as, k) ==
    IF k = 0
    THEN Then(Effect(InitLoc, <<>>, <<>>),
              Invoked([InitLoc EXCEPT !.pc = "start"], q))
    ELSE WithValue(Alone(q, as, k - 1),
                   LAMBDA run : Then(run, Answered(run.loc, q, as[k])))

\* C19: requests are independent.  In every interleaving of two requests
\* handled concurrently, the locals of each handler that has run, the
\* upstream calls it issued and the replies it sent are those of the
\* handler invoked alone with the same request and the same answers of the
\* upstream; a handler that has not run has done nothing; and the
\* allow-list holds what it held when the module was loaded.
C19_RequestsIndependent ==
    /\ hosts = allowedHosts
    /\ \A r \in ReqIds :
           IF Started(r)
           THEN \E run \in { Alone(req[r], results[r], Len(results[r])) } :
                    /\ loc[r] = run.loc
                    /\ calls[r] = run.calls
                    /\ responses[r] = run.replies
           ELSE /\ loc[r] = [InitLoc EXCEPT !.pc = "start"]
                /\ calls[r] = <<>>
                /\ responses[r] = <<>>

\* both requests are in their fallback loop at once: the second attempt of
\* one is in flight while the other, after a failed first attempt, reads
\* the body of its second
C19_Witness ==
    /\ OpenAIFamily(1) /\ OpenAIFamily(2)
    /\ Len(calls[1]) = 2 /\ loc[1].pc = "fetch"
    /\ Len(calls[2]) = 2 /\ loc[2].pc = "text"
    /\ results[2][2].status = 200
=============================================================================
